---- MODULE Spec2Model ----
(***************************************************************************)
(* Model of main.py: the Guardian <- Sankhya partner integration.          *)
(*                                                                         *)
(* A run of run_integration_process() is a sequential walk through          *)
(* load_credentials, perform_login, connect_to_sql_server,                 *)
(* get_guardian_partners / insert_partners_into_sql,                       *)
(* update_sankhya_partner_status, perform_logout and the two finally       *)
(* blocks.  Every call that leaves the process (HTTP request, ODBC call)   *)
(* is answered nondeterministically by the environment.  sys.stdout, the   *)
(* .env configuration and the destination table are process-wide; all     *)
(* other state is local to one run and indexed by the run.                 *)
(*                                                                         *)
(* Library behaviour assumed: requests >= 2.27, where Response.json()      *)
(* raises requests.exceptions.JSONDecodeError, a RequestException;         *)
(* pyodbc connections are opened with autocommit off (the default) and     *)
(* discard an open transaction when closed.                                *)
(***************************************************************************)
EXTENDS Integers, Sequences, FiniteSets, TLC

(* ----------------------------- bounds --------------------------------- *)

\* longest record list the view query answers with in the model
MaxRecords == 2

(* --------------------------- value domains ---------------------------- *)

\* the web requests (calls of run_integration_process) the model follows
Runs == {1, 2}

\* Python's None, where a string could stand instead
None == "None"

\* sys.stdout before any run has redirected it
Console == 0

\* main.py:19
api_required_vars == <<"TOKEN", "APPKEY", "USERNAME_API", "PASSWORD_API">>

\* the second loop forgotten
db_required_vars_nodb == <<>>

\* main.py:20
db_required_vars == <<"DB_SERVER", "DB_DATABASE", "DB_USERNAME", "DB_PASSWORD">>

RequiredVars == api_required_vars \o db_required_vars

SeqRange(s) == {s[i] : i \in 1..Len(s)}

\* str.lower() on the eight variable names (main.py:29, 36)
Lower(var) ==
    CASE var = "TOKEN" -> "token"
      [] var = "APPKEY" -> "appkey"
      [] var = "USERNAME_API" -> "username_api"
      [] var = "PASSWORD_API" -> "password_api"
      [] var = "DB_SERVER" -> "db_server"
      [] var = "DB_DATABASE" -> "db_database"
      [] var = "DB_USERNAME" -> "db_username"
      [] var = "DB_PASSWORD" -> "db_password"

\* a configuration value is a string, modelled as a sequence of characters
GoodValue == <<"x">>

\* values a variable can carry in .env / the process environment
EnvValues == {<<>>, <<" ">>, <<"x">>, <<" ", "x", " ">>}

\* str.strip(): drop leading and trailing whitespace
RECURSIVE LStrip(_)
LStrip(s) == IF s # <<>> /\ Head(s) = " " THEN LStrip(Tail(s)) ELSE s

RECURSIVE RStrip(_)
RStrip(s) ==
    IF s # <<>> /\ s[Len(s)] = " " THEN RStrip(SubSeq(s, 1, Len(s) - 1)) ELSE s

Strip(s) == RStrip(LStrip(s))

\* os.getenv(var) after load_dotenv(override=True): e is a function from
\* the variables that are set to their values; an unset variable gives None
IsSet(e, var) == var \in DOMAIN e

\* `if not value` (main.py:26, 33): None and the empty string are falsy
NotValue(e, var) == ~IsSet(e, var) \/ e[var] = <<>>

\* the first required variable, in the order of the two loops, whose value
\* is falsy; 0 when there is none
RECURSIVE FirstMissing(_, _, _)
FirstMissing(e, vars, i) ==
    IF i > Len(vars) THEN 0
    ELSE IF NotValue(e, vars[i]) THEN i
    ELSE FirstMissing(e, vars, i + 1)

\* the dictionary load_credentials builds (main.py:22, 29, 36)
BuildCredentials(e) == [k \in {Lower(v) : v \in SeqRange(RequiredVars)} |->
                        Strip(e[CHOOSE v \in SeqRange(RequiredVars) : Lower(v) = k])]

\* `is not None` in place of truthiness
Truthy_notnone(v) == v # None

\* truthiness of a string-or-None (main.py:187, 292, 299, 301)
Truthy(v) == v # None /\ v # ""

\* the bearer token the ERP hands to a run on a successful login
TokenOf(r) == IF r = 1 THEN "abc123" ELSE "def456"

\* what response_data.get("bearerToken") can give on a 2xx login response
LoginTokens(r) == {TokenOf(r), "", None}

\* values of record["CODPARC"]["$"] (main.py:179); None when absent
CodparcValues == {"1001", "1002", None}

RECURSIVE SeqsUpTo(_, _)
SeqsUpTo(S, n) ==
    IF n = 0 THEN {<<>>}
    ELSE LET shorter == SeqsUpTo(S, n - 1)
         IN  shorter \cup {Append(s, x) : s \in {t \in shorter : Len(t) = n - 1}, x \in S}

\* record lists the view query can answer with; a record is modelled by
\* its CODPARC value, the only field the control flow reads
Batches == SeqsUpTo(CodparcValues, MaxRecords)


\* the names of the configuration surface
ConfigKeys == {"TOKEN", "APPKEY", "USERNAME_API", "PASSWORD_API",
               "DB_SERVER", "DB_DATABASE", "DB_USERNAME", "DB_PASSWORD"}

\* the configuration with every required variable set to a usable value
GoodEnv == [v \in ConfigKeys |-> GoodValue]

\* the variables the model also gives a blank or a padded value: one that
\* the first loop of load_credentials reads and one that the second reads
PaddedKeys == {"TOKEN", "DB_PASSWORD"}

\* configurations the model starts from: the good one, and every one that
\* differs from it in one variable (unset or empty for each of the eight,
\* blank or padded for the two above)
Envs ==
    {GoodEnv}
    \cup {[GoodEnv EXCEPT ![v] = <<>>] : v \in ConfigKeys}
    \cup {[GoodEnv EXCEPT ![v] = x] : v \in PaddedKeys, x \in EnvValues}
    \cup {[w \in ConfigKeys \ {v} |-> GoodValue] : v \in ConfigKeys}

(* ------------------------------ state --------------------------------- *)

VARIABLES
    env,            \* .env merged over os.environ (load_dotenv(override=True))
    erpView,        \* the records VIEW_PARCEIROS_GUARDIAN holds in the ERP
    unreliable,     \* the kinds of external call that can fail in this execution
    sysStdout,      \* sys.stdout: Console, or r for the StringIO of run r
    table,          \* committed rows of tbTransportadora, <<run, record index>>
    pc,             \* position of each run in run_integration_process
    old_stdout,     \* main.py:282
    buffer,         \* redirected_output (main.py:283), one per run: for each
                    \* writing run, the messages it wrote there, in order
    emitted,        \* every message a run has written, wherever it went
    credentials,    \* main.py:287
    bearer_token,   \* main.py:288
    sql_connection, \* main.py:290, 295: None, "open" or "closed"
    records,        \* main.py:239
    idx,            \* position of the loops at main.py:164 and 195
    codparcs,       \* codparcs_inserted_successfully (main.py:161)
    exc,            \* the exception in flight: "none", "SystemExit", "Error"
    txn,            \* rows inserted in the open transaction of the connection
    calls,          \* every external call a run has issued, in order
    result          \* the value run_integration_process returned

vars == <<env, erpView, unreliable, sysStdout, table, pc, old_stdout, buffer, emitted, credentials,
          bearer_token, sql_connection, records, idx, codparcs, exc, txn,
          calls, result>>

\* a StringIO nothing has been written to
EmptyBuffer == [w \in Runs |-> <<>>]

\* print(): append to whatever sys.stdout is at this moment; a message is
\* the source line of its print, filed under the run that wrote it
Emit(r, lines) ==
    /\ buffer' = IF sysStdout = Console THEN buffer
                 ELSE [buffer EXCEPT ![sysStdout][r] = @ \o lines]
    /\ emitted' = [emitted EXCEPT ![r] = @ \o lines]

\* the kinds of external call the program issues
Ops == {"login", "connect", "fetch", "cursor", "insert", "commit", "mark",
        "rollback", "cursor_close", "logout", "close"}

\* an external call (HTTP request or ODBC call) leaves the process and comes
\* back with res; anything but a normal answer takes an unreliable service
Call(r, op, arg, res) ==
    /\ res \notin {"ok", "empty"} => op \in unreliable
    /\ calls' = [calls EXCEPT ![r] = Append(@, [op |-> op, arg |-> arg, res |-> res])]

Goto(r, label) == pc' = [pc EXCEPT ![r] = label]

Raise(r, e) == exc' = [exc EXCEPT ![r] = e]

InitRun(first) ==
    /\ env \in Envs
    /\ erpView \in Batches
    /\ unreliable \in SUBSET Ops
    /\ sysStdout = Console
    /\ table = {}
    /\ pc = [r \in Runs |-> IF r \in first THEN "idle" ELSE "off"]
    /\ old_stdout = [r \in Runs |-> Console]
    /\ buffer = [r \in Runs |-> EmptyBuffer]
    /\ emitted = [r \in Runs |-> <<>>]
    /\ credentials = [r \in Runs |-> <<>>]
    /\ bearer_token = [r \in Runs |-> None]
    /\ sql_connection = [r \in Runs |-> None]
    /\ records = [r \in Runs |-> <<>>]
    /\ idx = [r \in Runs |-> 0]
    /\ codparcs = [r \in Runs |-> <<>>]
    /\ exc = [r \in Runs |-> "none"]
    /\ txn = [r \in Runs |-> {}]
    /\ calls = [r \in Runs |-> <<>>]
    /\ result = [r \in Runs |-> EmptyBuffer]

\* one web request, every external call free to fail
Init == InitRun({1}) /\ unreliable = Ops

(* -------------------- run_integration_process: entry ------------------- *)

\* main.py:282
SaveStdout(r) ==
    /\ pc[r] = "idle"
    /\ old_stdout' = [old_stdout EXCEPT ![r] = sysStdout]
    /\ Goto(r, "redirect")
    /\ UNCHANGED <<env, erpView, unreliable, sysStdout, table, buffer, emitted, credentials,
                   bearer_token, sql_connection, records, idx, codparcs, exc,
                   txn, calls, result>>

\* the assignment at main.py:284 left out
NewStdout_unchanged(r) == sysStdout

\* the stream main.py:284 installs: the run's own StringIO
NewStdout(r) == r

\* main.py:283-284
RedirectStdout(r) ==
    /\ pc[r] = "redirect"
    /\ buffer' = [buffer EXCEPT ![r] = EmptyBuffer]
    /\ sysStdout' = NewStdout(r)
    /\ Goto(r, "load")
    /\ UNCHANGED <<env, erpView, unreliable, table, old_stdout, emitted, credentials, bearer_token,
                   sql_connection, records, idx, codparcs, exc, txn, calls,
                   result>>

(* --------------------------- load_credentials -------------------------- *)

\* where a SystemExit raised by load_credentials is handled (main.py:306)
OuterHandler == "except_exit"

\* main.py:16-38; the message line tells an API variable from a DB one
LoadCredentials(r) ==
    /\ pc[r] = "load"
    /\ LET m == FirstMissing(env, RequiredVars, 1)
       IN  IF m # 0
           THEN /\ Emit(r, IF m <= Len(api_required_vars) THEN <<27>> ELSE <<34>>)
                /\ Raise(r, "SystemExit")
                /\ Goto(r, OuterHandler)
                /\ UNCHANGED credentials
           ELSE /\ credentials' = [credentials EXCEPT ![r] = BuildCredentials(env)]
                /\ Goto(r, "login")
                /\ UNCHANGED <<buffer, emitted, exc>>
    /\ UNCHANGED <<env, erpView, unreliable, sysStdout, table, old_stdout, bearer_token,
                   sql_connection, records, idx, codparcs, txn, calls, result>>

(* ----------------------------- perform_login --------------------------- *)

\* what the login request can come back with
LoginOutcomes(r) ==
    {<<"ok", t>> : t \in LoginTokens(r)}
    \cup {<<"http_json", None>>, <<"http_text", None>>,
          <<"conn_error", None>>, <<"bad_json", None>>}

\* the lines perform_login prints after the request (main.py:57-70)
LoginLines(kind) ==
    CASE kind = "ok" -> <<57>>
      [] kind = "http_json" -> <<61, 62, 65, 66>>
      [] kind = "http_text" -> <<61, 62, 68>>
      [] OTHER -> <<70>>

\* main.py:40-72
PerformLogin(r) ==
    /\ pc[r] = "login"
    /\ \E o \in LoginOutcomes(r) :
         /\ Call(r, "login", "-", o[1])
         /\ o[2] # TokenOf(r) => "login" \in unreliable
         /\ Emit(r, <<50>> \o LoginLines(o[1]))
         /\ bearer_token' = [bearer_token EXCEPT ![r] = o[2]]
    /\ Goto(r, "branch")
    /\ UNCHANGED <<env, erpView, unreliable, sysStdout, table, old_stdout, credentials,
                   sql_connection, records, idx, codparcs, exc, txn, result>>

\* main.py:290-294 and 304-305
BranchOnToken(r) ==
    /\ pc[r] = "branch"
    /\ IF Truthy(bearer_token[r])
       THEN /\ Emit(r, <<294>>)
            /\ Goto(r, "connect")
       ELSE /\ Emit(r, <<305>>)
            /\ Goto(r, "restore")
    /\ UNCHANGED <<env, erpView, unreliable, sysStdout, table, old_stdout, credentials, bearer_token,
                   sql_connection, records, idx, codparcs, exc, txn, calls,
                   result>>

(* ------------------------- connect_to_sql_server ----------------------- *)

\* cleanup outside any finally: the body goes straight to the exit
InnerFinally_skipped == "restore"

\* where control goes when the body of the try at main.py:293 is left,
\* normally or by an exception: the finally block at main.py:298
InnerFinally == "logout"

\* the connect placed ahead of the try block
OnConnectError_outside == OuterHandler

\* a connection error that is only logged
OnConnectError_goesOn == "fetch"

\* sys.exit(1) at main.py:97 is raised inside the try at main.py:293
OnConnectError == InnerFinally

\* main.py:74-97, and the assignment at main.py:295
ConnectToSqlServer(r) ==
    /\ pc[r] = "connect"
    /\ \/ /\ Call(r, "connect", "-", "ok")
          /\ Emit(r, <<88, 91>>)
          /\ sql_connection' = [sql_connection EXCEPT ![r] = "open"]
          /\ Goto(r, "fetch")
          /\ UNCHANGED exc
       \/ /\ Call(r, "connect", "-", "error")
          /\ Emit(r, <<88, 95, 96>>)
          /\ Raise(r, "SystemExit")
          /\ Goto(r, OnConnectError)
          /\ UNCHANGED sql_connection
    /\ UNCHANGED <<env, erpView, unreliable, sysStdout, table, old_stdout, credentials, bearer_token,
                   records, idx, codparcs, txn, result>>

(* ------------------------- get_guardian_partners ----------------------- *)

\* failures of an HTTP request as the handlers see them: a non-2xx status
\* (HTTPError, e.response set), a connection failure and a body that is not
\* JSON (both RequestException with e.response None)
RequestErrors == {"http_error", "conn_error", "bad_json"}

\* the lines of the `except RequestException` handlers, given the line of
\* the first print (main.py:141-144, 246-249, 274-277)
ErrorLines(kind, first) ==
    IF kind = "http_error" THEN <<first, first + 2, first + 3>> ELSE <<first>>

\* an early exit on an empty list that bypasses the cleanup
AfterFetch_noCleanup(batch) == IF batch # <<>> THEN "insert" ELSE "restore"

\* main.py:240-243: the persist stage runs only for a non-empty list
AfterFetch(batch) == IF batch # <<>> THEN "insert" ELSE InnerFinally

\* main.py:207-249
GetGuardianPartners(r) ==
    /\ pc[r] = "fetch"
    /\ Truthy(sql_connection[r])
    /\ \/ LET batch == erpView IN
            /\ Call(r, "fetch", bearer_token[r], IF batch # <<>> THEN "ok" ELSE "empty")
            /\ records' = [records EXCEPT ![r] = batch]
            /\ Emit(r, IF batch # <<>> THEN <<210, 237>> ELSE <<210, 237, 243>>)
            /\ Goto(r, AfterFetch(batch))
       \/ \E kind \in RequestErrors :
            /\ Call(r, "fetch", bearer_token[r], kind)
            /\ Emit(r, <<210>> \o ErrorLines(kind, 246))
            /\ Goto(r, InnerFinally)
            /\ UNCHANGED records
    /\ UNCHANGED <<env, erpView, unreliable, sysStdout, table, old_stdout, credentials, bearer_token,
                   sql_connection, idx, codparcs, exc, txn, result>>

(* ------------------------ insert_partners_into_sql --------------------- *)

\* main.py:146-161: the guard, sql_conn.cursor() and the empty code list
InsertBegin(r) ==
    /\ pc[r] = "insert"
    /\ IF records[r] = <<>>
       THEN /\ Emit(r, <<148>>)
            /\ Goto(r, InnerFinally)
            /\ UNCHANGED <<calls, exc, idx, codparcs>>
       ELSE /\ \/ /\ Call(r, "cursor", "-", "ok")
                  /\ Emit(r, <<159>>)
                  /\ codparcs' = [codparcs EXCEPT ![r] = <<>>]
                  /\ idx' = [idx EXCEPT ![r] = 1]
                  /\ Goto(r, "execute")
                  /\ UNCHANGED exc
               \/ /\ Call(r, "cursor", "-", "error")
                  /\ Raise(r, "Error")
                  /\ Goto(r, InnerFinally)
                  /\ UNCHANGED <<buffer, emitted, idx, codparcs>>
    /\ UNCHANGED <<env, erpView, unreliable, sysStdout, table, old_stdout, credentials, bearer_token,
                   sql_connection, records, txn, result>>

\* a handler that only logs
OnPyodbcError_norollback == "cursor_close"

\* where a pyodbc.Error raised inside the try at main.py:163 is handled
OnPyodbcError == "rollback"

\* the codes collected in reverse
AppendCodparc_prepend(codes, codparc_api) ==
    IF codparc_api \notin {None, ""} THEN <<codparc_api>> \o codes ELSE codes

\* the test at main.py:187 left out
AppendCodparc_always(codes, codparc_api) == Append(codes, codparc_api)

\* the codes to mark after one more successful insert (main.py:187-188)
AppendCodparc(codes, codparc_api) ==
    IF Truthy(codparc_api) THEN Append(codes, codparc_api) ELSE codes

\* a connection opened with autocommit=True
Autocommit_on == TRUE

\* main.py:90: pyodbc.connect is called without autocommit, which is off by
\* default, so an executed insert stays in the transaction until the commit
Autocommit == FALSE

\* main.py:164-188: one iteration of the loop over the records
InsertRecord(r) ==
    /\ pc[r] = "execute"
    /\ idx[r] <= Len(records[r])
    /\ \/ /\ Call(r, "insert", records[r][idx[r]], "ok")
          /\ IF Autocommit
             THEN /\ table' = table \cup {<<r, idx[r]>>}
                  /\ UNCHANGED txn
             ELSE /\ txn' = [txn EXCEPT ![r] = @ \cup {<<r, idx[r]>>}]
                  /\ UNCHANGED table
          /\ codparcs' = [codparcs EXCEPT ![r] = AppendCodparc(@, records[r][idx[r]])]
          /\ idx' = [idx EXCEPT ![r] = @ + 1]
          /\ UNCHANGED pc
       \/ /\ Call(r, "insert", records[r][idx[r]], "error")
          /\ Goto(r, OnPyodbcError)
          /\ UNCHANGED <<table, txn, codparcs, idx>>
    /\ UNCHANGED <<env, erpView, unreliable, sysStdout, old_stdout, buffer, emitted,
                   credentials, bearer_token, sql_connection, records, exc,
                   result>>

\* main.py:190-198: commit, then the branch on the list of codes
Commit(r) ==
    /\ pc[r] = "execute"
    /\ idx[r] > Len(records[r])
    /\ \/ /\ Call(r, "commit", "-", "ok")
          /\ table' = table \cup txn[r]
          /\ txn' = [txn EXCEPT ![r] = {}]
          /\ IF codparcs[r] # <<>>
             THEN /\ Emit(r, <<191, 194>>)
                  /\ idx' = [idx EXCEPT ![r] = 1]
                  /\ Goto(r, "mark")
             ELSE /\ Emit(r, <<191, 198>>)
                  /\ Goto(r, "cursor_close")
                  /\ UNCHANGED idx
       \/ /\ Call(r, "commit", "-", "error")
          /\ Goto(r, OnPyodbcError)
          /\ UNCHANGED <<table, txn, buffer, emitted, idx>>
    /\ UNCHANGED <<env, erpView, unreliable, sysStdout, old_stdout, credentials, bearer_token,
                   sql_connection, records, codparcs, exc, result>>

(* ---------------------- update_sankhya_partner_status ------------------ *)

\* what a mark-imported or logout request can come back with: status "1",
\* another status, or one of the request errors
StatusOutcomes == {"ok", "bad_status"} \cup RequestErrors

\* the lines update_sankhya_partner_status prints (main.py:128-144)
MarkLines(kind) ==
    CASE kind = "ok" -> <<128, 135>>
      [] kind = "bad_status" -> <<128, 137, 138>>
      [] OTHER -> <<128>> \o ErrorLines(kind, 141)

\* a request error that ends the loop
AfterMark_stop(kind, i, n) ==
    IF i < n /\ kind \notin RequestErrors THEN "mark" ELSE "cursor_close"

\* where the loop at main.py:195 goes after the call for position i: every
\* outcome of the call is handled inside update_sankhya_partner_status
AfterMark(kind, i, n) == IF i < n THEN "mark" ELSE "cursor_close"

\* main.py:195-196 with main.py:99-144: one iteration of the loop
UpdateSankhyaPartnerStatus(r) ==
    /\ pc[r] = "mark"
    /\ idx[r] <= Len(codparcs[r])
    /\ \E kind \in StatusOutcomes :
         /\ Call(r, "mark", codparcs[r][idx[r]], kind)
         /\ Emit(r, MarkLines(kind))
         /\ Goto(r, AfterMark(kind, idx[r], Len(codparcs[r])))
    /\ idx' = [idx EXCEPT ![r] = @ + 1]
    /\ UNCHANGED <<env, erpView, unreliable, sysStdout, table, old_stdout, credentials, bearer_token,
                   sql_connection, records, codparcs, exc, txn, result>>

\* main.py:200-203: the handler of pyodbc.Error; rollback() can itself fail
\* on a broken connection, and then the error leaves the handler
Rollback(r) ==
    /\ pc[r] = "rollback"
    /\ \/ /\ Call(r, "rollback", "-", "ok")
          /\ txn' = [txn EXCEPT ![r] = {}]
          /\ Emit(r, <<202, 203>>)
          /\ UNCHANGED exc
       \/ /\ Call(r, "rollback", "-", "error")
          /\ Raise(r, "Error")
          /\ UNCHANGED <<txn, buffer, emitted>>
    /\ Goto(r, "cursor_close")
    /\ UNCHANGED <<env, erpView, unreliable, sysStdout, table, old_stdout, credentials, bearer_token,
                   sql_connection, records, idx, codparcs, result>>

\* main.py:204-205
CursorClose(r) ==
    /\ pc[r] = "cursor_close"
    /\ Call(r, "cursor_close", "-", "ok")
    /\ Goto(r, InnerFinally)
    /\ UNCHANGED <<env, erpView, unreliable, sysStdout, table, old_stdout, buffer, emitted,
                   credentials, bearer_token, sql_connection, records, idx,
                   codparcs, exc, txn, result>>

(* ------------------- the finally block at main.py:298 ------------------ *)

\* the lines perform_logout prints (main.py:254-277)
LogoutLines(kind) ==
    CASE kind = "ok" -> <<254, 268>>
      [] kind = "bad_status" -> <<254, 270, 271>>
      [] OTHER -> <<254>> \o ErrorLines(kind, 274)

\* a request error that leaves perform_logout and the finally block
AfterLogout_raises(kind) == IF kind \in RequestErrors THEN "restore" ELSE "close"

\* where control goes after perform_logout: every outcome of the request is
\* handled inside it, so the finally block goes on to main.py:301
AfterLogout(kind) == "close"

\* main.py:299-300 with main.py:251-277
PerformLogout(r) ==
    /\ pc[r] = "logout"
    /\ IF Truthy(bearer_token[r])
       THEN \E kind \in StatusOutcomes :
                 /\ Call(r, "logout", bearer_token[r], kind)
                 /\ Emit(r, LogoutLines(kind))
                 /\ Goto(r, AfterLogout(kind))
       ELSE /\ Goto(r, "close")
            /\ UNCHANGED <<calls, buffer, emitted>>
    /\ UNCHANGED <<env, erpView, unreliable, sysStdout, table, old_stdout, credentials, bearer_token,
                   sql_connection, records, idx, codparcs, exc, txn, result>>

\* where the finally block at main.py:298 hands over: a SystemExit in flight
\* goes to the handler at main.py:306, anything else to the outer finally
LeaveInnerFinally(e) == IF e = "SystemExit" THEN OuterHandler ELSE "restore"

\* main.py:301-303; closing discards what the transaction still holds
CloseConnection(r) ==
    /\ pc[r] = "close"
    /\ IF Truthy(sql_connection[r])
       THEN /\ Call(r, "close", "-", "ok")
            /\ sql_connection' = [sql_connection EXCEPT ![r] = "closed"]
            /\ txn' = [txn EXCEPT ![r] = {}]
            /\ Emit(r, <<303>>)
       ELSE UNCHANGED <<calls, sql_connection, txn, buffer, emitted>>
    /\ Goto(r, LeaveInnerFinally(exc[r]))
    /\ UNCHANGED <<env, erpView, unreliable, sysStdout, table, old_stdout, credentials, bearer_token,
                   records, idx, codparcs, exc, result>>

(* -------------------- run_integration_process: exit -------------------- *)

\* main.py:306-307
HandleSystemExit(r) ==
    /\ pc[r] = "except_exit"
    /\ Emit(r, <<307>>)
    /\ Raise(r, "none")
    /\ Goto(r, "restore")
    /\ UNCHANGED <<env, erpView, unreliable, sysStdout, table, old_stdout, credentials, bearer_token,
                   sql_connection, records, idx, codparcs, txn, calls, result>>

\* main.py:308-310
RestoreStdout(r) ==
    /\ pc[r] = "restore"
    /\ sysStdout' = old_stdout[r]
    /\ Goto(r, "return")
    /\ UNCHANGED <<env, erpView, unreliable, table, old_stdout, buffer, emitted, credentials,
                   bearer_token, sql_connection, records, idx, codparcs, exc,
                   txn, calls, result>>

\* a return placed after the finally block: an exception in flight goes on
\* to the caller and nothing is returned
AfterReturn_propagates(e) == IF e = "none" THEN "done" ELSE "raised"

\* main.py:312: the return sits inside the finally block, so the function
\* returns whether or not an exception is in flight
AfterReturn(e) == "done"

\* main.py:312: the return inside finally also drops an exception in flight
ReturnTranscript(r) ==
    /\ pc[r] = "return"
    /\ result' = [result EXCEPT ![r] = buffer[r]]
    /\ Raise(r, "none")
    /\ Goto(r, AfterReturn(exc[r]))
    /\ UNCHANGED <<env, erpView, unreliable, sysStdout, table, old_stdout, buffer, emitted,
                   credentials, bearer_token, sql_connection, records, idx,
                   codparcs, txn, calls>>

(* --------------------------- specification ----------------------------- *)

\* one step of the thread that serves request r
RunStep(r) ==
        \/ SaveStdout(r)
        \/ RedirectStdout(r)
        \/ LoadCredentials(r)
        \/ PerformLogin(r)
        \/ BranchOnToken(r)
        \/ ConnectToSqlServer(r)
        \/ GetGuardianPartners(r)
        \/ InsertBegin(r)
        \/ InsertRecord(r)
        \/ Commit(r)
        \/ UpdateSankhyaPartnerStatus(r)
        \/ Rollback(r)
        \/ CursorClose(r)
        \/ PerformLogout(r)
        \/ CloseConnection(r)
        \/ HandleSystemExit(r)
        \/ RestoreStdout(r)
        \/ ReturnTranscript(r)

Next == \E r \in Runs : RunStep(r)

Spec == Init /\ [][Next]_vars

\* the configurations of the smaller specifications: the good one, one with
\* a database variable unset and one with a blank API variable
FewEnvs == {GoodEnv,
            [w \in ConfigKeys \ {"DB_SERVER"} |-> GoodValue],
            [GoodEnv EXCEPT !["TOKEN"] = <<" ">>]}

\* one web request whose thread keeps running and whose every external
\* call comes back
InitLive == InitRun({1}) /\ env \in FewEnvs /\ unreliable = Ops

SpecLive == InitLive /\ [][Next]_vars /\ \A r \in Runs : WF_vars(RunStep(r))

\* two web requests served by two threads of the development server
\* (app.run at main.py:396 serves each request on a thread of its own)
InitConc ==
    /\ InitRun({1, 2})
    /\ env = GoodEnv
    /\ erpView = <<"1001">>
    /\ unreliable \in {{"connect"}, {"insert"}}

SpecConc == InitConc /\ [][Next]_vars

(* ------------------------------ typing --------------------------------- *)

Labels == {"off", "idle", "redirect", "load", "login", "branch", "connect",
           "fetch", "insert", "execute", "mark", "rollback", "cursor_close",
           "logout", "close", "except_exit", "restore", "return", "done"}

TypeOK ==
    /\ unreliable \subseteq Ops
    /\ erpView \in Batches
    /\ sysStdout \in {Console} \cup Runs
    /\ pc \in [Runs -> Labels]
    /\ \A r \in Runs :
         /\ bearer_token[r] \in LoginTokens(r)
         /\ sql_connection[r] \in {None, "open", "closed"}
         /\ records[r] \in Batches
         /\ exc[r] \in {"none", "SystemExit", "Error"}
         /\ txn[r] \subseteq {r} \X (1..MaxRecords)
    /\ table \subseteq Runs \X (1..MaxRecords)

(* ------------------------- reading the call log ------------------------ *)

\* the calls of one kind a run has issued, in order
CallsOf(r, op) == SelectSeq(calls[r], LAMBDA c : c.op = op)

\* the kinds of call a run has issued
OpsOf(r) == {calls[r][i].op : i \in DOMAIN calls[r]}

\* a call of this kind came back with this result
Answered(r, op, res) == \E i \in DOMAIN calls[r] : calls[r][i].op = op /\ calls[r][i].res = res

\* the run has left the try block at main.py:286 / has returned
Leaving(r) == pc[r] \in {"restore", "return", "done"}

Returned(r) == pc[r] = "done"

\* perform_login gave the run a token
GotToken(r) == Answered(r, "login", "ok") /\ bearer_token[r] \notin {None, ""}

\* the rows of the run's batch that are committed
CommittedRows(r) == {row \in table : row[1] = r}

(* -------------------------------- C1 ----------------------------------- *)

\* C1: in every run in which perform_login returned a token, exactly one
\* logout call has been issued by the time the run leaves its try block, and
\* it carries that token; at no time has a run issued more than one logout.
C1_LogoutAfterLogin ==
    \A r \in Runs :
        /\ Len(CallsOf(r, "logout")) <= 1
        /\ (GotToken(r) /\ Leaving(r)) =>
               /\ Len(CallsOf(r, "logout")) = 1
               /\ CallsOf(r, "logout")[1].arg = bearer_token[r]

\* a run with a token has returned after its downstream stage failed
C1_Witness ==
    \E r \in Runs :
        /\ Returned(r) /\ GotToken(r)
        /\ Len(CallsOf(r, "logout")) = 1
        /\ Answered(r, "connect", "error")

(* -------------------------------- C2 ----------------------------------- *)

\* C2: if the insert of some record of the batch raised a database error,
\* then no row of the batch is ever committed, no mark-imported call is ever
\* issued, a rollback is issued as soon as the handler has run, and the
\* transaction holds no row when the run returns.
C2_InsertFailureRollsBack ==
    \A r \in Runs :
        Answered(r, "insert", "error") =>
            /\ CommittedRows(r) = {}
            /\ "mark" \notin OpsOf(r)
            /\ "commit" \notin OpsOf(r)
            /\ pc[r] # "rollback" => Len(CallsOf(r, "rollback")) = 1
            /\ Returned(r) => txn[r] = {}

\* the second insert of a batch of two failed after the first had succeeded
C2_Witness ==
    \E r \in Runs :
        /\ Returned(r)
        /\ Len(records[r]) = 2
        /\ Answered(r, "insert", "ok") /\ Answered(r, "insert", "error")
        /\ Answered(r, "rollback", "ok")

(* -------------------------------- C3 ----------------------------------- *)

\* the partner codes of the records that carry one, in record order
RECURSIVE CodesOf(_)
CodesOf(recs) ==
    IF recs = <<>> THEN <<>>
    ELSE IF Head(recs) \in {None, ""} THEN CodesOf(Tail(recs))
    ELSE <<Head(recs)>> \o CodesOf(Tail(recs))

MarkArgs(r) == LET c == CallsOf(r, "mark") IN [i \in DOMAIN c |-> c[i].arg]

\* C3 as stated: when all N records were inserted and committed, N
\* mark-imported calls have been issued by the time the run returns.
C3_Original ==
    \A r \in Runs :
        (Returned(r) /\ Answered(r, "commit", "ok")) =>
            Len(CallsOf(r, "mark")) = Len(records[r])

\* C3 amended: when all N records were inserted and committed, the
\* mark-imported calls issued by the time the run returns are exactly one per
\* record that carries a partner code, in record order, whatever the outcome
\* of each call; a record without a partner code is committed but not marked.
C3_OneMarkPerCode ==
    \A r \in Runs :
        (Returned(r) /\ Answered(r, "commit", "ok")) =>
            /\ MarkArgs(r) = CodesOf(records[r])
            /\ CommittedRows(r) = {r} \X (1..Len(records[r]))

\* two records were committed, both marked, and the first mark call failed
C3_Witness ==
    \E r \in Runs :
        /\ Returned(r) /\ Answered(r, "commit", "ok")
        /\ MarkArgs(r) = <<"1001", "1002">>
        /\ CallsOf(r, "mark")[1].res = "http_error"

(* -------------------------------- C4 ----------------------------------- *)

\* the results of a login request that leave the run without a token
NoTokenLogin(r) ==
    \/ \E res \in {"http_json", "http_text", "conn_error", "bad_json"} : Answered(r, "login", res)
    \/ Answered(r, "login", "ok") /\ bearer_token[r] \in {None, ""}

\* C4: after a login that yielded no token (HTTP error, connection failure,
\* or a 2xx body without a bearer token) the login request is the only
\* external call the run ever issues: no connect, fetch, insert, commit,
\* mark-imported or logout.
C4_NoTokenNoDownstream ==
    \A r \in Runs :
        NoTokenLogin(r) => /\ OpsOf(r) = {"login"}
                           /\ sql_connection[r] = None
                           /\ CommittedRows(r) = {}

\* a run whose 2xx login response carried an empty token has returned
C4_Witness ==
    \E r \in Runs :
        /\ Returned(r)
        /\ Answered(r, "login", "ok") /\ bearer_token[r] = ""
        /\ OpsOf(r) = {"login"}

(* -------------------------------- C5 ----------------------------------- *)

\* one of the eight required keys is unset or empty
KeyMissing == \E v \in ConfigKeys : v \notin DOMAIN env \/ env[v] = <<>>

\* C5: when any one of the eight required keys is missing, load_credentials
\* never returns (the run holds no credentials and never reaches the login)
\* and the run issues no external call at all.
C5_MissingKeyNoIO ==
    \A r \in Runs :
        KeyMissing => /\ calls[r] = <<>>
                      /\ credentials[r] = <<>>
                      /\ pc[r] \in {"off", "idle", "redirect", "load", "except_exit",
                                    "restore", "return", "done"}
                      /\ table = {}

\* a run has returned with a database key unset
C5_Witness ==
    \E r \in Runs :
        /\ Returned(r)
        /\ "DB_PASSWORD" \notin DOMAIN env
        /\ calls[r] = <<>>
        /\ 34 \in SeqRange(result[r][r])

(* -------------------------------- C6 ----------------------------------- *)

\* C6: whenever load_credentials has returned a mapping, each of the eight
\* keys is in it with a trimmed, non-empty value; and a required value that
\* is empty after trimming keeps load_credentials from returning.
C6_Original ==
    \A r \in Runs :
        /\ credentials[r] # <<>> =>
               \A v \in ConfigKeys :
                   /\ Lower(v) \in DOMAIN credentials[r]
                   /\ credentials[r][Lower(v)] # <<>>
        /\ (\E v \in DOMAIN env : Strip(env[v]) = <<>>) => credentials[r] = <<>>

(* -------------------------------- C7 ----------------------------------- *)

\* C7: a run closes its database connection at most once and only after
\* having opened it, and once a run that opened the connection has left its
\* try block the connection has been closed exactly once.
C7_ConnectionClosedOnce ==
    \A r \in Runs :
        /\ Len(CallsOf(r, "close")) <= 1
        /\ "close" \in OpsOf(r) => Answered(r, "connect", "ok")
        /\ (Answered(r, "connect", "ok") /\ Leaving(r)) =>
               /\ Len(CallsOf(r, "close")) = 1
               /\ sql_connection[r] = "closed"

\* a run has returned after its rollback failed and has closed the connection
C7_Witness ==
    \E r \in Runs :
        /\ Returned(r)
        /\ Answered(r, "rollback", "error")
        /\ Len(CallsOf(r, "close")) = 1

(* -------------------------------- C8 ----------------------------------- *)

\* the results of a mark-imported or logout request that count as failures
FailedResults == {"bad_status", "http_error", "conn_error", "bad_json"}

\* C8: after a logout request that failed in any way the run goes on to the
\* close of the connection: if the connection was opened, the close is the
\* call issued right after the logout once the run has left its try block,
\* and an exception is in flight only if a database call had raised one.
C8_LogoutFailureOnlyLogged ==
    \A r \in Runs :
        (\E res \in FailedResults : Answered(r, "logout", res)) =>
            /\ pc[r] \in {"close", "except_exit", "restore", "return", "done"}
            /\ (Answered(r, "connect", "ok") /\ Leaving(r)) =>
                   /\ calls[r][Len(calls[r])].op = "close"
                   /\ calls[r][Len(calls[r]) - 1].op = "logout"
            /\ exc[r] # "none" =>
                   \E op \in {"connect", "cursor", "rollback"} : Answered(r, op, "error")

\* a run whose logout answered with an unparseable body has returned with
\* the connection closed
C8_Witness ==
    \E r \in Runs :
        /\ Returned(r)
        /\ Answered(r, "logout", "bad_json")
        /\ sql_connection[r] = "closed"

(* -------------------------------- C9 ----------------------------------- *)

\* C9: once a mark-imported call has failed, the rows of the batch stay
\* committed and no rollback is issued; the mark calls issued so far are the
\* committed codes in order, each once, and when the loop is over there is
\* one for every committed code.
C9_MarkFailureIsolated ==
    \A r \in Runs :
        (\E res \in FailedResults : Answered(r, "mark", res)) =>
            /\ CommittedRows(r) = {r} \X (1..Len(records[r]))
            /\ "rollback" \notin OpsOf(r)
            /\ Len(MarkArgs(r)) <= Len(codparcs[r])
            /\ MarkArgs(r) = SubSeq(codparcs[r], 1, Len(MarkArgs(r)))
            /\ pc[r] # "mark" => Len(MarkArgs(r)) = Len(codparcs[r])

\* the mark call for the first of two codes failed on the connection and the
\* call for the second was still issued
C9_Witness ==
    \E r \in Runs :
        /\ Returned(r)
        /\ Len(CallsOf(r, "mark")) = 2
        /\ CallsOf(r, "mark")[1].res = "conn_error"
        /\ CallsOf(r, "mark")[2].arg = "1002"

(* -------------------------------- C10 ---------------------------------- *)

\* C10: when the fetch gave no records (an empty list or a failed request)
\* the run issues no cursor, insert, commit, rollback or mark-imported call
\* and commits nothing, and once it has left its try block it has issued its
\* logout.
C10_NoRecordsSkipsPersist ==
    \A r \in Runs :
        (\E res \in {"empty", "http_error", "conn_error", "bad_json"} : Answered(r, "fetch", res)) =>
            /\ OpsOf(r) \cap {"cursor", "insert", "commit", "rollback", "mark", "cursor_close"} = {}
            /\ CommittedRows(r) = {}
            /\ Leaving(r) => Len(CallsOf(r, "logout")) = 1

\* a run whose fetch answered with an empty list has returned after logout
C10_Witness ==
    \E r \in Runs :
        /\ Returned(r)
        /\ Answered(r, "fetch", "empty")
        /\ "logout" \in OpsOf(r)

(* -------------------------------- C11 ---------------------------------- *)

\* C11: after a failed connection attempt the run is in its cleanup or past
\* it; its only external calls are the login, the connect and the logout (no
\* fetch, insert, mark-imported or close); once it has left the finally block
\* it has issued one logout carrying its token, and when it returns its
\* transcript closes with the abort message of main.py:307.
C11_ConnectFailureAborts ==
    \A r \in Runs :
        Answered(r, "connect", "error") =>
            /\ pc[r] \in {"logout", "close", "except_exit", "restore", "return", "done"}
            /\ OpsOf(r) \subseteq {"login", "connect", "logout"}
            /\ sql_connection[r] = None
            /\ pc[r] \in {"except_exit", "restore", "return", "done"} =>
                   /\ Len(CallsOf(r, "logout")) = 1
                   /\ CallsOf(r, "logout")[1].arg = bearer_token[r]
            /\ Leaving(r) => emitted[r][Len(emitted[r])] = 307

\* a run whose connection attempt failed has returned after its logout
C11_Witness ==
    \E r \in Runs :
        /\ Returned(r)
        /\ Answered(r, "connect", "error")
        /\ calls[r][Len(calls[r])].op = "logout"

(* -------------------------------- C12 ---------------------------------- *)

\* C12: the transcript a run returns holds exactly the messages the run
\* wrote, in the order it wrote them, and is never empty.
C12_TranscriptComplete ==
    \A r \in Runs :
        Returned(r) => /\ result[r][r] = emitted[r]
                       /\ emitted[r] # <<>>

\* a run aborted by a missing API variable has returned the two messages of
\* that path
C12_Witness ==
    \E r \in Runs :
        /\ Returned(r)
        /\ result[r][r] = <<27, 307>>

(* -------------------------------- C13 ---------------------------------- *)

\* the run was aborted: the handler of SystemExit wrote its message
Aborted(r) == 307 \in SeqRange(emitted[r])

\* the failures of the stages and the line each is logged with
StageFailureLogged(r) ==
    /\ (\E res \in {"http_json", "http_text"} : Answered(r, "login", res)) =>
           61 \in SeqRange(result[r][r])
    /\ (\E res \in {"conn_error", "bad_json"} : Answered(r, "login", res)) =>
           70 \in SeqRange(result[r][r])
    /\ (\E res \in {"http_error", "conn_error", "bad_json"} : Answered(r, "fetch", res)) =>
           246 \in SeqRange(result[r][r])
    /\ ((Answered(r, "insert", "error") \/ Answered(r, "commit", "error"))
           /\ Answered(r, "rollback", "ok")) =>
           202 \in SeqRange(result[r][r])
    /\ Answered(r, "mark", "bad_status") => 137 \in SeqRange(result[r][r])
    /\ (\E res \in {"http_error", "conn_error", "bad_json"} : Answered(r, "mark", res)) =>
           141 \in SeqRange(result[r][r])
    /\ Answered(r, "logout", "bad_status") => 270 \in SeqRange(result[r][r])
    /\ (\E res \in {"http_error", "conn_error", "bad_json"} : Answered(r, "logout", res)) =>
           274 \in SeqRange(result[r][r])

Precedes(r, op1, op2) ==
    \A j \in DOMAIN calls[r] :
        calls[r][j].op = op2 =>
            \A i \in j..Len(calls[r]) : calls[r][i].op # op1

\* every call of kind op2 has a call of kind op1 answered res before it
NeedsBefore(r, op1, res, op2) ==
    \A j \in DOMAIN calls[r] :
        calls[r][j].op = op2 =>
            \E i \in 1..(j - 1) : calls[r][i].op = op1 /\ calls[r][i].res = res

InsertArgs(r) == LET c == CallsOf(r, "insert") IN [i \in DOMAIN c |-> c[i].arg]

IsPrefix(s, t) == Len(s) <= Len(t) /\ s = SubSeq(t, 1, Len(s))

\* C14: in every run every insert is issued before the commit, every
\* mark-imported call after the successful commit, the inserts and the marks
\* in the order of the fetched records, the logout after every mark-imported
\* call and the close of the connection after the logout.
C14_FixedOrder ==
    \A r \in Runs :
        /\ Precedes(r, "insert", "commit")
        /\ NeedsBefore(r, "commit", "ok", "mark")
        /\ IsPrefix(InsertArgs(r), records[r])
        /\ IsPrefix(MarkArgs(r), CodesOf(records[r]))
        /\ Precedes(r, "mark", "logout")
        /\ Precedes(r, "logout", "close")
        /\ \A j \in DOMAIN calls[r] :
               calls[r][j].op = "close" => \E i \in 1..(j - 1) : calls[r][i].op = "logout"

\* a run on two records has issued every kind of call of the normal path
C14_Witness ==
    \E r \in Runs :
        /\ Returned(r)
        /\ [i \in DOMAIN calls[r] |-> calls[r][i].op] =
               <<"login", "connect", "fetch", "cursor", "insert", "insert", "commit",
                 "mark", "mark", "cursor_close", "logout", "close">>
        /\ MarkArgs(r) = <<"1001", "1002">>

(* -------------------------------- C15 ---------------------------------- *)

\* C15: at every moment the committed rows of a run's batch are none or all
\* of its N records, and every mark-imported call issued names the partner
\* code of a record whose row is committed.
C15_AllOrNothing ==
    \A r \in Runs :
        /\ Cardinality(CommittedRows(r)) \in {0, Len(records[r])}
        /\ \A i \in DOMAIN calls[r] :
               calls[r][i].op = "mark" =>
                   \E k \in 1..Len(records[r]) :
                       records[r][k] = calls[r][i].arg /\ <<r, k>> \in table

\* the first of two records is inserted and nothing is committed yet
C15_Witness ==
    \E r \in Runs :
        /\ pc[r] = "execute"
        /\ Len(records[r]) = 2
        /\ txn[r] = {<<r, 1>>}
        /\ CommittedRows(r) = {}

(* -------------------------------- C16 ---------------------------------- *)

\* C16: once both of two overlapping calls have returned, sys.stdout is the
\* stream that was installed before the first of them started.
C16_Original ==
    (\A r \in Runs : Returned(r)) => sysStdout = Console

(* -------------------------------- C17 ---------------------------------- *)

\* C17: of two overlapping calls, the transcript each returns holds all the
\* messages of its own run and none of the other run's.
C17_Original ==
    \A r, w \in Runs :
        Returned(r) => result[r][w] = (IF w = r THEN emitted[r] ELSE <<>>)

====
